---- MODULE Spec2Model ----
(***************************************************************************)
(* Model of src/seoUtils.ts: the URL-keyed analysis cache around           *)
(* analyzePage, and the extraction / scoring / recommendation pipeline of  *)
(* parseHTML.                                                              *)
(*                                                                         *)
(* Representation.                                                         *)
(*   - A string whose characters the code inspects (href, rel, url, the    *)
(*     robots directive) is a sequence of one-character strings.           *)
(*   - A string of which the code reads only emptiness and length (title,  *)
(*     meta description) is its length.                                    *)
(*   - An element attribute is <<>> when absent and <<v>> when present     *)
(*     with value v (getAttribute returns null for the former).            *)
(*   - A Document is the record DOMParser.parseFromString produces, kept   *)
(*     to the elements the queries of the code select.                     *)
(*   - Math.random() returns a value in [0,1); a draw is kept in           *)
(*     hundredths (0..99) and every call site reads its own draw from a    *)
(*     stream rnd that the parse action chooses nondeterministically.      *)
(***************************************************************************)
EXTENDS Integers, Sequences, FiniteSets, TLC

(***************************************************************************)
(* Bounds of the model.                                                    *)
(***************************************************************************)
MaxCallers == 2
MaxHeadings == 2
MaxLevel == 3
MaxImages == 2
MaxLinks == 3
MaxScripts == 2
MaxTokens == 3

(***************************************************************************)
(* String primitives of the host language, on character sequences.         *)
(***************************************************************************)
\* String.prototype.startsWith
StartsWith(s, p) ==
  /\ Len(p) <= Len(s)
  /\ SubSeq(s, 1, Len(p)) = p

\* String.prototype.includes
Includes(s, p) ==
  \E i \in 0..(Len(s) - Len(p)) : SubSeq(s, i + 1, i + Len(p)) = p

\* Math.round of the non-negative rational n/d (d > 0): floor(n/d + 1/2)
MathRound(n, d) == (2 * n + d) \div (2 * d)

Max(a, b) == IF a >= b THEN a ELSE b
Min(a, b) == IF a <= b THEN a ELSE b

\* element.getAttribute(name) || dflt, where empty is the empty string of the
\* attribute's representation ("" or <<>>): null and '' are both falsy
AttrOr(attr, empty, dflt) ==
  IF attr = <<>> THEN dflt
  ELSE IF attr[1] = empty THEN dflt ELSE attr[1]

\* the elements of seq at the indices in keep, in order
RECURSIVE SelectIdx(_, _, _)
SelectIdx(seq, keep, i) ==
  IF i > Len(seq) THEN <<>>
  ELSE (IF i \in keep THEN <<seq[i]>> ELSE <<>>) \o SelectIdx(seq, keep, i + 1)

(***************************************************************************)
(* Literals of the source.                                                 *)
(***************************************************************************)
S_http == <<"h","t","t","p">>                                \* 'http'
S_https_ == <<"h","t","t","p","s",":","/","/">>              \* 'https://'
S_slash == <<"/">>                                           \* '/'
S_nofollow == <<"n","o","f","o","l","l","o","w">>            \* 'nofollow'
S_noindex == <<"n","o","i","n","d","e","x">>                 \* 'noindex'
UnknownImage == "Unknown image"
InvalidJsonLd == "Invalid JSON-LD structure"

(***************************************************************************)
(* new URL(baseUrl).hostname, for the absolute http(s) URLs of the model:  *)
(* the characters between "://" and the next "/".                          *)
(***************************************************************************)
RECURSIVE UpToSlash(_)
UpToSlash(s) ==
  IF s = <<>> \/ Head(s) = "/" THEN <<>>
  ELSE <<Head(s)>> \o UpToSlash(Tail(s))

Hostname(url) ==
  IF StartsWith(url, S_https_) THEN UpToSlash(SubSeq(url, 9, Len(url)))
  ELSE UpToSlash(SubSeq(url, 8, Len(url)))

(***************************************************************************)
(* JSON.parse on the script texts of the model.  The result is             *)
(* [throws |-> TRUE] for a SyntaxError, and otherwise the parsed value:    *)
(* its kind and, for an object, its "@type" member (<<>> when it has       *)
(* none).                                                                  *)
(***************************************************************************)
JsonValue(kind, type) == [throws |-> FALSE, kind |-> kind, type |-> type]

JSONparse(text) ==
  CASE text = "" -> [throws |-> TRUE]
    [] text = "{\"@type\":\"Arti" -> [throws |-> TRUE]
    [] text = "null" -> JsonValue("null", <<>>)
    [] text = "42" -> JsonValue("number", <<>>)
    [] text = "[{\"@type\":\"Person\"}]" -> JsonValue("array", <<>>)
    [] text = "{\"name\":\"x\"}" -> JsonValue("object", <<>>)
    [] text = "{\"@type\":\"\"}" -> JsonValue("object", <<"">>)
    [] text = "{\"@type\":\"Article\"}" -> JsonValue("object", <<"Article">>)
    [] text = "{\"@type\":\"Person\"}" -> JsonValue("object", <<"Person">>)

(***************************************************************************)
(* The extractors.  doc is the parsed Document:                            *)
(*   title, metaDescription : length of the text ('' when the element or   *)
(*                            attribute is missing)                        *)
(*   canonical   : href attribute of link[rel="canonical"], as an attribute*)
(*   robots      : content of meta[name="robots"], characters              *)
(*   headings    : levels of the h1..h6 elements in document order         *)
(*   images      : the img elements, [alt, src] attributes                 *)
(*   anchors     : the a elements, [href, rel] attributes                  *)
(*   scripts     : textContent of script[type="application/ld+json"]       *)
(*   words, sentences : body text, counted as analyzeContent splits it     *)
(*   text        : characters of the body text, where the document spells  *)
(*                 them out (KeywordDocs); elsewhere the body is given by   *)
(*                 its counts alone                                         *)
(*   viewport, og, twitter, pixel, analytics : whether the selector of     *)
(*                            analyzeMobile / analyzeSocialMedia matches   *)
(***************************************************************************)
\* one step of the forEach of extractStructuredData: acc is <<types, errors>>
ScriptStep(acc, text) ==
  LET data == JSONparse(text) IN
    IF data.throws THEN <<acc[1], Append(acc[2], InvalidJsonLd)>>
    \* data['@type'] on null throws a TypeError, caught by the same catch
    ELSE IF data.kind = "null" THEN <<acc[1], Append(acc[2], InvalidJsonLd)>>
    ELSE IF data.type # <<>> /\ data.type[1] # "" THEN <<Append(acc[1], data.type[1]), acc[2]>>
    ELSE acc

\* faulty variant: the loop ends at the first block that raises
RECURSIVE ScriptLoopStopsAtError(_, _)
ScriptLoopStopsAtError(scripts, acc) ==
  IF scripts = <<>> THEN acc
  ELSE IF Len(ScriptStep(acc, Head(scripts))[2]) > Len(acc[2])
       THEN ScriptStep(acc, Head(scripts))
       ELSE ScriptLoopStopsAtError(Tail(scripts), ScriptStep(acc, Head(scripts)))

RECURSIVE ScriptLoop(_, _)
ScriptLoop(scripts, acc) ==
  IF scripts = <<>> THEN acc
  ELSE ScriptLoop(Tail(scripts), ScriptStep(acc, Head(scripts)))

extractStructuredData(doc) ==
  LET r == ScriptLoop(doc.scripts, <<<<>>, <<>>>>) IN
    [hasSchema |-> Len(doc.scripts) > 0, types |-> r[1], errors |-> r[2]]

extractHeadings(doc) ==
  [n \in 1..6 |-> Cardinality({i \in DOMAIN doc.headings : doc.headings[i] = n})]

\* rnd.oversized[i] is the draw of Math.random() for the i-th image
analyzeImages(doc, rnd) ==
  LET allImages == doc.images
      imagesWithAlt == {i \in DOMAIN allImages : allImages[i].alt # <<>>}
      noAlt == {i \in DOMAIN allImages : AttrOr(allImages[i].alt, "", "") = ""}
      big == {i \in DOMAIN allImages : rnd.oversized[i] > 80}
      srcs == [i \in DOMAIN allImages |-> AttrOr(allImages[i].src, "", UnknownImage)]
  IN [total |-> Len(allImages),
      withAlt |-> Cardinality(imagesWithAlt),
      withoutAlt |-> Len(allImages) - Cardinality(imagesWithAlt),
      missingAlt |-> SelectIdx(srcs, noAlt, 1),
      oversized |-> SelectIdx(srcs, big, 1),
      totalSize |-> (rnd.other * 3000) \div 100 + 500]

analyzeLinks(doc, baseUrl, rnd) ==
  LET allLinks == SelectSeq(doc.anchors, LAMBDA a : a.href # <<>>)
      href(i) == AttrOr(allLinks[i].href, <<>>, <<>>)
      rel(i) == AttrOr(allLinks[i].rel, <<>>, <<>>)
      host == Hostname(baseUrl)
      isExternal(i) == StartsWith(href(i), S_http) /\ ~Includes(href(i), host)
      isInternal(i) == ~isExternal(i)
                       /\ (StartsWith(href(i), S_slash) \/ Includes(href(i), host))
      isNofollow(i) == Includes(rel(i), S_nofollow)
  IN [internal |-> Cardinality({i \in DOMAIN allLinks : isInternal(i)}),
      external |-> Cardinality({i \in DOMAIN allLinks : isExternal(i)}),
      broken |-> (rnd.other * 2) \div 100,
      nofollow |-> Cardinality({i \in DOMAIN allLinks : isNofollow(i)}),
      dofollow |-> Cardinality({i \in DOMAIN allLinks : ~isNofollow(i)})]

(***************************************************************************)
(* analyzeKeywords on the characters of the body text.                     *)
(***************************************************************************)
UpperCase == <<"A","B","C","D","E","F","G","H","I","J","K","L","M",
               "N","O","P","Q","R","S","T","U","V","W","X","Y","Z">>
LowerCase == <<"a","b","c","d","e","f","g","h","i","j","k","l","m",
               "n","o","p","q","r","s","t","u","v","w","x","y","z">>
Digits == <<"0","1","2","3","4","5","6","7","8","9">>

\* String.prototype.toLowerCase
toLowerCase(s) ==
  [i \in DOMAIN s |->
     IF \E k \in DOMAIN UpperCase : UpperCase[k] = s[i]
     THEN LowerCase[CHOOSE k \in DOMAIN UpperCase : UpperCase[k] = s[i]]
     ELSE s[i]]

\* the classes \w and \s of the regular expressions
IsWordChar(c) ==
  \/ \E k \in DOMAIN LowerCase : LowerCase[k] = c
  \/ \E k \in DOMAIN UpperCase : UpperCase[k] = c
  \/ \E k \in DOMAIN Digits : Digits[k] = c
  \/ c = "_"

IsSpace(c) == c \in {" ", "\n", "\t"}

\* .replace(/[^\w\s]/g, '')
StripPunctuation(s) == SelectSeq(s, LAMBDA c : IsWordChar(c) \/ IsSpace(c))

\* .split(/\s+/): cur is the piece being read, inGap whether the last
\* character was white space
RECURSIVE SplitSpaces(_, _, _)
SplitSpaces(s, cur, inGap) ==
  IF s = <<>> THEN <<cur>>
  ELSE IF IsSpace(Head(s))
       THEN (IF inGap THEN SplitSpaces(Tail(s), cur, TRUE)
             ELSE <<cur>> \o SplitSpaces(Tail(s), <<>>, TRUE))
       ELSE SplitSpaces(Tail(s), Append(cur, Head(s)), FALSE)

\* the digit of a character
DigitOf(c) == (CHOOSE k \in DOMAIN Digits : Digits[k] = c) - 1

\* the order of the numbers two canonical strings of digits spell: the shorter
\* is the smaller, and strings of one length order digit by digit
RECURSIVE DigitsLess(_, _)
DigitsLess(a, b) ==
  IF a = <<>> THEN FALSE
  ELSE IF a[1] # b[1] THEN DigitOf(a[1]) < DigitOf(b[1])
  ELSE DigitsLess(Tail(a), Tail(b))

NumLess(a, b) == Len(a) < Len(b) \/ (Len(a) = Len(b) /\ DigitsLess(a, b))

\* the largest array index, 2^32 - 2
MaxArrayIndex == <<"4","2","9","4","9","6","7","2","9","4">>

\* a property key that is an array index: a canonical numeric string up to
\* 2^32 - 2.  Objects enumerate these keys first, in ascending numeric order.
IsArrayIndex(w) ==
  /\ w # <<>>
  /\ \A i \in DOMAIN w : \E k \in DOMAIN Digits : Digits[k] = w[i]
  /\ (Len(w) = 1 \/ w[1] # "0")
  /\ ~NumLess(MaxArrayIndex, w)

\* the distinct elements of words in order of first occurrence
RECURSIVE FirstSeen(_, _)
FirstSeen(words, seen) ==
  IF words = <<>> THEN <<>>
  ELSE IF Head(words) \in seen THEN FirstSeen(Tail(words), seen)
       ELSE <<Head(words)>> \o FirstSeen(Tail(words), seen \cup {Head(words)})

\* the array-index keys of a set, ascending
RECURSIVE Ascending(_)
Ascending(S) ==
  IF S = {} THEN <<>>
  ELSE LET m == CHOOSE x \in S : \A y \in S : ~NumLess(y, x)
       IN <<m>> \o Ascending(S \ {m})

\* the keys of the object built by wordCount[word] = ... over words, in the
\* order Object.entries enumerates them
ObjectKeys(words) ==
  LET keys == FirstSeen(words, {})
      idx == {keys[i] : i \in {j \in DOMAIN keys : IsArrayIndex(keys[j])}}
  IN Ascending(idx) \o SelectSeq(keys, LAMBDA w : ~IsArrayIndex(w))

\* Array.prototype.sort with the comparator b - a on the densities: stable,
\* descending.  The densities of one text share their denominator, so they
\* order as their numerators do.
RECURSIVE SortDescending(_)
SortDescending(entries) ==
  IF entries = <<>> THEN <<>>
  ELSE LET i == CHOOSE k \in DOMAIN entries :
                  /\ \A j \in DOMAIN entries : entries[j].num <= entries[k].num
                  /\ \A j \in 1..(k - 1) : entries[j].num < entries[k].num
       IN <<entries[i]>>
          \o SortDescending(SubSeq(entries, 1, i - 1) \o SubSeq(entries, i + 1, Len(entries)))

\* Array.prototype.slice(from, to), 0-based, to exclusive
Slice(seq, from, to) == SubSeq(seq, from + 1, Min(to, Len(seq)))

analyzeKeywords(text) ==
  LET limitedText == Slice(text, 0, 5000)
      words == SelectSeq(SplitSpaces(StripPunctuation(toLowerCase(limitedText)), <<>>, FALSE),
                         LAMBDA w : Len(w) > 3)
      totalWords == Len(words)
      keys == ObjectKeys(words)
      \* density[word] = count / totalWords * 100, kept as the fraction num / den
      density == [k \in DOMAIN keys |->
                    [word |-> keys[k],
                     num |-> 100 * Cardinality({i \in DOMAIN words : words[i] = keys[k]}),
                     den |-> totalWords]]
      sorted == SortDescending(density)
      topKeywords == Slice([k \in DOMAIN sorted |-> sorted[k].word], 0, 15)
  IN [density |-> density,
      suggestions |-> topKeywords,
      primary |-> Slice(topKeywords, 0, 3),
      secondary |-> Slice(topKeywords, 3, 10)]

\* text.split(/\s+/).filter(word => word.length > 0).length
WordsOf(text) == Len(SelectSeq(SplitSpaces(text, <<>>, FALSE), LAMBDA w : w # <<>>))

\* text.split(/[.!?]+/).filter(s => s.trim().length > 0).length: the number
\* of maximal runs free of . ! ? that hold a character other than white space
RECURSIVE SentencesOf(_, _)
SentencesOf(text, inSentence) ==
  IF text = <<>> THEN 0
  ELSE IF Head(text) \in {".", "!", "?"} THEN SentencesOf(Tail(text), FALSE)
  ELSE IF IsSpace(Head(text)) \/ inSentence THEN SentencesOf(Tail(text), inSentence)
  ELSE 1 + SentencesOf(Tail(text), TRUE)

analyzeContent(doc, rnd) ==
  LET w == doc.words
      s == doc.sentences
      \* readabilityScore = max(0, min(100, 100 - 2 * w / s)), as the rational n/d
      n == IF s > 0 THEN Max(0, 100 * s - 2 * w) ELSE 100
      d == IF s > 0 THEN s ELSE 1
  IN [wordCount |-> w,
      readabilityScore |-> MathRound(n, d),
      duplicateContent |-> rnd.duplicateContent > 90,
      languageDetected |-> "es"]

analyzeMobile(doc, rnd) ==
  [responsive |-> doc.viewport,
   viewportMeta |-> doc.viewport,
   touchFriendly |-> rnd.other > 20]

\* the forEach over h1..h6 in document order: <<properHeadingStructure, lastLevel>>
RECURSIVE HeadingLoop(_, _, _)
HeadingLoop(levels, proper, lastLevel) ==
  IF levels = <<>> THEN proper
  ELSE HeadingLoop(Tail(levels),
                   IF Head(levels) > lastLevel + 1 THEN FALSE ELSE proper,
                   Head(levels))

analyzeAccessibility(doc, images, rnd) ==
  [altImages |-> images.withAlt,
   headingStructure |-> HeadingLoop(doc.headings, TRUE, 0),
   colorContrast |-> rnd.colorContrast > 15]

analyzeSecurity(url, rnd) ==
  [https |-> StartsWith(url, S_https_),
   mixedContent |-> rnd.other > 90]

analyzeSocialMedia(doc) ==
  [hasOpenGraph |-> doc.og,
   hasTwitterCard |-> doc.twitter,
   hasFacebookPixel |-> doc.pixel,
   hasGoogleAnalytics |-> doc.analytics]

checkTechnicalIssues(doc, title, metaDescription, headings, images, canonicalUrl) ==
  [missingTitle |-> title = 0,
   missingMetaDescription |-> metaDescription = 0,
   duplicateH1 |-> headings[1] > 1,
   imagesMissingAlt |-> images.withoutAlt > 0,
   titleTooLong |-> title > 60,
   metaDescriptionTooLong |-> metaDescription > 160,
   missingCanonical |-> canonicalUrl = <<>>,
   noIndex |-> Includes(doc.robots, S_noindex),
   noFollow |-> Includes(doc.robots, S_nofollow)]

(***************************************************************************)
(* calculateDetailedScores: the five deduction ladders.                    *)
(***************************************************************************)
\* faulty variant: a duplicate H1 costs 10 points
TechnicalScoreH1Ten(issues) ==
  100 - (IF issues.missingTitle THEN 25 ELSE 0)
      - (IF issues.missingMetaDescription THEN 20 ELSE 0)
      - (IF issues.duplicateH1 THEN 10 ELSE 0)
      - (IF issues.missingCanonical THEN 10 ELSE 0)
      - (IF issues.titleTooLong THEN 10 ELSE 0)
      - (IF issues.metaDescriptionTooLong THEN 10 ELSE 0)

TechnicalScore(issues) ==
  100 - (IF issues.missingTitle THEN 25 ELSE 0)
      - (IF issues.missingMetaDescription THEN 20 ELSE 0)
      - (IF issues.duplicateH1 THEN 15 ELSE 0)
      - (IF issues.missingCanonical THEN 10 ELSE 0)
      - (IF issues.titleTooLong THEN 10 ELSE 0)
      - (IF issues.metaDescriptionTooLong THEN 10 ELSE 0)

ContentScore(content, headings) ==
  100 - (IF content.wordCount < 300 THEN 20 ELSE 0)
      - (IF content.readabilityScore < 60 THEN 15 ELSE 0)
      - (IF headings[1] = 0 THEN 20 ELSE 0)
      - (IF content.duplicateContent THEN 25 ELSE 0)

\* Math.floor(Math.random() * 20) + 80
PerformanceScore(rnd) == (rnd.performance * 20) \div 100 + 80

AccessibilityScore(accessibility, images, mobile) ==
  100 - (IF ~accessibility.headingStructure THEN 20 ELSE 0)
      - (IF ~accessibility.colorContrast THEN 15 ELSE 0)
      - (IF images.withoutAlt > 0 THEN Min(images.withoutAlt * 5, 30) ELSE 0)
      - (IF ~mobile.responsive THEN 25 ELSE 0)

SocialScore(socialMedia) ==
  100 - (IF ~socialMedia.hasOpenGraph THEN 30 ELSE 0)
      - (IF ~socialMedia.hasTwitterCard THEN 20 ELSE 0)
      - (IF ~socialMedia.hasGoogleAnalytics THEN 15 ELSE 0)

calculateDetailedScores(headings, images, issues, content, mobile, accessibility, socialMedia, rnd) ==
  [technical |-> Max(0, TechnicalScore(issues)),
   content |-> Max(0, ContentScore(content, headings)),
   performance |-> Max(0, PerformanceScore(rnd)),
   accessibility |-> Max(0, AccessibilityScore(accessibility, images, mobile)),
   social |-> Max(0, SocialScore(socialMedia))]

\* faulty variant: Math.floor in place of Math.round
OverallScoreFloor(scores) ==
  (scores.technical + scores.content + scores.performance
   + scores.accessibility + scores.social) \div 5

\* Math.round((technical + content + performance + accessibility + social) / 5)
OverallScore(scores) ==
  MathRound(scores.technical + scores.content + scores.performance
            + scores.accessibility + scores.social, 5)

(***************************************************************************)
(* generateComprehensiveRecommendations.  A line is [text, n]: n is the    *)
(* count interpolated into the text (0 for a line without one).            *)
(***************************************************************************)
Line(text) == [text |-> text, n |-> 0]
AltLine(n) == [text |-> "Agregar texto alt a ${n} imagenes", n |-> n]

\* if (cond) recommendations.push(line)
Push(cond, line) == IF cond THEN <<line>> ELSE <<>>

\* faulty variant: the title-length line is pushed before the missing-description line
TechnicalRecommendationsTitleFirst(issues) ==
  Push(issues.missingTitle, Line("CRITICO: Agregar un titulo unico y descriptivo"))
  \o Push(issues.titleTooLong, Line("Acortar titulo a menos de 60 caracteres"))
  \o Push(issues.missingMetaDescription, Line("CRITICO: Agregar meta descripcion de 150-160 caracteres"))
  \o Push(issues.duplicateH1, Line("IMPORTANTE: Usar solo un H1 por pagina"))
  \o Push(issues.missingCanonical, Line("IMPORTANTE: Agregar URL canonica"))
  \o Push(issues.metaDescriptionTooLong, Line("Acortar meta descripcion"))

TechnicalRecommendations(issues) ==
  Push(issues.missingTitle, Line("CRITICO: Agregar un titulo unico y descriptivo"))
  \o Push(issues.missingMetaDescription, Line("CRITICO: Agregar meta descripcion de 150-160 caracteres"))
  \o Push(issues.duplicateH1, Line("IMPORTANTE: Usar solo un H1 por pagina"))
  \o Push(issues.missingCanonical, Line("IMPORTANTE: Agregar URL canonica"))
  \o Push(issues.titleTooLong, Line("Acortar titulo a menos de 60 caracteres"))
  \o Push(issues.metaDescriptionTooLong, Line("Acortar meta descripcion"))

ContentRecommendations(content) ==
  Push(content.wordCount < 300, Line("Aumentar contenido a minimo 300 palabras"))
  \o Push(content.readabilityScore < 60, Line("Mejorar legibilidad del contenido"))
  \o Push(content.duplicateContent, Line("Revisar contenido duplicado"))

ImageRecommendations(images) ==
  Push(images.withoutAlt > 0, AltLine(images.withoutAlt))
  \o Push(Len(images.oversized) > 0, Line("Optimizar tamano de imagenes grandes"))

LinkRecommendations(links) ==
  Push(links.internal < 3, Line("Agregar mas enlaces internos"))
  \o Push(links.external > links.internal * 2, Line("Balancear enlaces internos vs externos"))

ThresholdRecommendations(scores) ==
  Push(scores.performance < 70, Line("Mejorar velocidad de carga"))
  \o Push(scores.social < 70, Line("Implementar Open Graph y Twitter Cards"))
  \o Push(scores.accessibility < 70, Line("Mejorar accesibilidad web"))

generateComprehensiveRecommendations(issues, scores, content, images, links) ==
  TechnicalRecommendations(issues)
  \o ContentRecommendations(content)
  \o ImageRecommendations(images)
  \o LinkRecommendations(links)
  \o ThresholdRecommendations(scores)

(***************************************************************************)
(* parseHTML on the parsed document.  The verbatim copies of the og:* /    *)
(* twitter:* / keywords meta contents feed no other field and are not part *)
(* of the record.                                                          *)
(***************************************************************************)
parseHTML(doc, url, rnd) ==
  LET title == doc.title
      metaDescription == doc.metaDescription
      canonicalUrl == IF AttrOr(doc.canonical, <<>>, <<>>) = <<>> THEN <<>> ELSE doc.canonical[1]
      structuredData == extractStructuredData(doc)
      headings == extractHeadings(doc)
      images == analyzeImages(doc, rnd)
      links == analyzeLinks(doc, url, rnd)
      keywords == analyzeKeywords(doc.text)
      content == analyzeContent(doc, rnd)
      mobile == analyzeMobile(doc, rnd)
      accessibility == analyzeAccessibility(doc, images, rnd)
      security == analyzeSecurity(url, rnd)
      socialMedia == analyzeSocialMedia(doc)
      technicalIssues == checkTechnicalIssues(doc, title, metaDescription, headings, images, canonicalUrl)
      scores == calculateDetailedScores(headings, images, technicalIssues, content, mobile,
                                        accessibility, socialMedia, rnd)
  IN [url |-> url,
      title |-> title,
      metaDescription |-> metaDescription,
      canonicalUrl |-> canonicalUrl,
      structuredData |-> structuredData,
      headings |-> headings,
      images |-> images,
      links |-> links,
      \* loadTime in hundredths of a second
      performance |-> [loadTime |-> rnd.other * 2 + 50,
                       pageSize |-> rnd.other * 15 + 300,
                       requests |-> (rnd.other * 30) \div 100 + 15],
      mobile |-> mobile,
      security |-> security,
      accessibility |-> accessibility,
      keywords |-> keywords,
      content |-> content,
      technicalIssues |-> technicalIssues,
      socialMedia |-> socialMedia,
      score |-> OverallScore(scores),
      scores |-> scores,
      recommendations |-> generateComprehensiveRecommendations(technicalIssues, scores, content, images, links)]

(***************************************************************************)
(* getComprehensiveSampleAnalysis: the fixed report of the fallback path.  *)
(***************************************************************************)
getComprehensiveSampleAnalysis(url) ==
  [url |-> url,
   title |-> 60,
   metaDescription |-> 139,
   canonicalUrl |-> url,
   structuredData |-> [hasSchema |-> TRUE,
                       types |-> <<"Article", "BreadcrumbList", "Organization">>,
                       errors |-> <<>>],
   headings |-> [n \in 1..6 |-> CASE n = 1 -> 1 [] n = 2 -> 4 [] n = 3 -> 4
                                  [] n = 4 -> 3 [] OTHER -> 0],
   images |-> [total |-> 12, withAlt |-> 10, withoutAlt |-> 2,
               missingAlt |-> <<"chart-keywords.png", "diagram-seo.jpg">>,
               oversized |-> <<"hero-banner.jpg">>,
               totalSize |-> 1840],
   links |-> [internal |-> 25, external |-> 8, broken |-> 0, nofollow |-> 3, dofollow |-> 30],
   performance |-> [loadTime |-> 120, pageSize |-> 1250, requests |-> 28],
   mobile |-> [responsive |-> TRUE, viewportMeta |-> TRUE, touchFriendly |-> TRUE],
   security |-> [https |-> TRUE, mixedContent |-> FALSE],
   accessibility |-> [altImages |-> 10, headingStructure |-> TRUE, colorContrast |-> TRUE],
   \* a density is the fraction num / den
   keywords |-> [density |-> <<[word |-> "seo", num |-> 32, den |-> 10],
                               [word |-> "posicionamiento", num |-> 28, den |-> 10],
                               [word |-> "google", num |-> 21, den |-> 10],
                               [word |-> "contenido", num |-> 19, den |-> 10],
                               [word |-> "palabras", num |-> 17, den |-> 10],
                               [word |-> "clave", num |-> 15, den |-> 10],
                               [word |-> "optimizacion", num |-> 13, den |-> 10],
                               [word |-> "tecnico", num |-> 11, den |-> 10],
                               [word |-> "estrategias", num |-> 9, den |-> 10],
                               [word |-> "marketing", num |-> 8, den |-> 10]>>,
                 suggestions |-> <<"seo", "posicionamiento", "google", "contenido", "palabras">>,
                 primary |-> <<"seo", "posicionamiento", "google">>,
                 secondary |-> <<"contenido", "palabras", "clave", "optimizacion">>],
   content |-> [wordCount |-> 2450, readabilityScore |-> 78, duplicateContent |-> FALSE,
                languageDetected |-> "es"],
   technicalIssues |-> [missingTitle |-> FALSE, missingMetaDescription |-> FALSE,
                        duplicateH1 |-> FALSE, imagesMissingAlt |-> TRUE,
                        titleTooLong |-> FALSE, metaDescriptionTooLong |-> FALSE,
                        missingCanonical |-> FALSE, noIndex |-> FALSE, noFollow |-> FALSE],
   socialMedia |-> [hasOpenGraph |-> TRUE, hasTwitterCard |-> TRUE,
                    hasFacebookPixel |-> TRUE, hasGoogleAnalytics |-> TRUE],
   score |-> 91,
   scores |-> [technical |-> 88, content |-> 94, performance |-> 85,
               accessibility |-> 92, social |-> 96],
   recommendations |-> <<[text |-> "Agregar texto alt a 2 imagenes faltantes", n |-> 0],
                         [text |-> "Excelente velocidad de carga (1.2s)", n |-> 0],
                         [text |-> "Contenido bien estructurado y optimizado", n |-> 0],
                         [text |-> "Densidad de palabras clave optima", n |-> 0],
                         [text |-> "Sitio web muy bien optimizado para SEO", n |-> 0]>>]

(***************************************************************************)
(* Inputs of the model.                                                    *)
(***************************************************************************)
Url1 == <<"h","t","t","p","s",":","/","/","a",".","i","o","/","p">>   \* 'https://a.io/p'
Url2 == <<"h","t","t","p",":","/","/","a",".","i","o","/","q">>       \* 'http://a.io/q'
Urls == {Url1, Url2}

\* the values Math.random() takes in the model, in hundredths
RandomValues == {10, 95}

\* the draws of one run of parseHTML on doc: one per oversized check, one each
\* for duplicateContent, colorContrast and the performance score, and one
\* (other) shared by the call sites that feed neither a score nor a
\* recommendation (totalSize, broken, touchFriendly, mixedContent, performance)
RandomStreams(doc) ==
  [oversized : [1..Len(doc.images) -> RandomValues],
   duplicateContent : RandomValues,
   colorContrast : RandomValues,
   performance : RandomValues,
   other : RandomValues]

\* the streams all of whose draws are equal
UniformStreams(doc) ==
  {r \in RandomStreams(doc) :
     /\ \A i \in DOMAIN r.oversized : r.oversized[i] = r.other
     /\ r.duplicateContent = r.other
     /\ r.colorContrast = r.other
     /\ r.performance = r.other}

\* all sequences over S of length at most n
SeqsUpTo(S, n) == UNION {[1..k -> S] : k \in 0..n}

BaseDoc ==
  [title |-> 30, metaDescription |-> 120, canonical |-> <<Url1>>, robots |-> <<>>,
   headings |-> <<1, 2>>, images |-> <<>>, anchors |-> <<>>, scripts |-> <<>>,
   words |-> 300, sentences |-> 20, text |-> <<>>,
   viewport |-> TRUE, og |-> TRUE, twitter |-> TRUE, pixel |-> FALSE, analytics |-> TRUE]

TechDocs ==
  {[BaseDoc EXCEPT !.title = t, !.metaDescription = m, !.canonical = c, !.headings = h] :
     t \in {0, 60, 61}, m \in {0, 160, 161}, c \in {<<>>, <<<<>>>>, <<Url1>>},
     h \in SeqsUpTo(1..MaxLevel, MaxHeadings)}

ImagePool ==
  {[alt |-> <<>>, src |-> <<"a.png">>],
   [alt |-> <<>>, src |-> <<>>],
   [alt |-> <<"">>, src |-> <<"b.png">>],
   [alt |-> <<"logo">>, src |-> <<"c.png">>]}

ImageDocs == {[BaseDoc EXCEPT !.images = s] : s \in SeqsUpTo(ImagePool, MaxImages)}

AnchorPool ==
  {[href |-> <<>>, rel |-> <<S_nofollow>>],
   [href |-> <<<<"/","x">>>>, rel |-> <<>>],
   [href |-> <<Url1>>, rel |-> <<<<"n","o","o","p","e","n","e","r">>>>],
   [href |-> <<<<"h","t","t","p",":","/","/","b",".","i","o","/">>>>, rel |-> <<S_nofollow>>],
   [href |-> <<<<"h","t","t","p",":","/","/","b",".","i","o","/">>>>,
    rel |-> <<<<"x","n","o","f","o","l","l","o","w">>>>],
   [href |-> <<<<"x",".","h","t","m","l">>>>,
    rel |-> <<<<"n","o","o","p","e","n","e","r"," ","n","o","f","o","l","l","o","w">>>>]}

LinkDocs == {[BaseDoc EXCEPT !.anchors = s] : s \in SeqsUpTo(AnchorPool, MaxLinks)}

ScriptTexts ==
  {"", "{\"@type\":\"Arti", "null", "42", "[{\"@type\":\"Person\"}]", "{\"name\":\"x\"}",
   "{\"@type\":\"\"}", "{\"@type\":\"Article\"}", "{\"@type\":\"Person\"}"}

ScriptDocs == {[BaseDoc EXCEPT !.scripts = s] : s \in SeqsUpTo(ScriptTexts, MaxScripts)}

BodyDocs ==
  {[BaseDoc EXCEPT !.words = b[1], !.sentences = b[2], !.viewport = v, !.og = o,
                   !.twitter = t, !.analytics = a, !.pixel = a /\ ~o,
                   !.robots = IF v THEN <<>> ELSE S_noindex \o <<",">> \o S_nofollow] :
     b \in {<<0, 0>>, <<3, 0>>, <<50, 1>>, <<299, 20>>, <<300, 10>>, <<1000, 49>>},
     v \in BOOLEAN, o \in BOOLEAN, t \in BOOLEAN, a \in BOOLEAN}

\* documents with defects on several facets at once
CrossDocs ==
  {[d EXCEPT !.title = t, !.metaDescription = 0, !.canonical = <<>>, !.headings = h,
             !.images = <<[alt |-> <<>>, src |-> <<"a.png">>]>>] :
     d \in BodyDocs, t \in {0, 61}, h \in {<<1, 1>>, <<3>>}}

\* the white-space separated pieces of the body texts: 'seo', 'Page', 'page,',
\* 'guide', '2024', '1000'
TokenPool ==
  {<<"s","e","o">>, <<"P","a","g","e">>, <<"p","a","g","e",",">>,
   <<"g","u","i","d","e">>, <<"2","0","2","4">>, <<"1","0","0","0">>}

\* the pieces joined by single spaces
RECURSIVE Join(_)
Join(tokens) ==
  IF tokens = <<>> THEN <<>>
  ELSE IF Len(tokens) = 1 THEN tokens[1]
  ELSE tokens[1] \o <<" ">> \o Join(Tail(tokens))

\* documents whose body text is spelled out
KeywordDocs ==
  {[BaseDoc EXCEPT !.text = Join(t), !.words = WordsOf(Join(t)),
                   !.sentences = SentencesOf(Join(t), FALSE)] :
     t \in SeqsUpTo(TokenPool, MaxTokens)}

\* '/x', 'http://a.io/q', 'http://b.io/?a.io' (another host, the page's host
\* in the query) and 'httpx.html' (a relative path)
HrefPool ==
  {<<"/","x">>,
   Url2,
   <<"h","t","t","p",":","/","/","b",".","i","o","/","?","a",".","i","o">>,
   <<"h","t","t","p","x",".","h","t","m","l">>}

\* documents whose anchors carry an href and no rel
HrefDocs ==
  {[BaseDoc EXCEPT !.anchors = [i \in DOMAIN s |-> [href |-> <<s[i]>>, rel |-> <<>>]]] :
     s \in SeqsUpTo(HrefPool, MaxLinks)}

Docs ==
  TechDocs \cup ImageDocs \cup LinkDocs \cup ScriptDocs \cup BodyDocs \cup CrossDocs
  \cup KeywordDocs \cup HrefDocs

\* the document the retrieval service returns for a URL
Web(u) ==
  IF u = Url1 THEN BaseDoc
  ELSE [BaseDoc EXCEPT !.title = 0, !.anchors = <<[href |-> <<<<"/","x">>>>, rel |-> <<>>]>>]

Callers == 1..MaxCallers

(***************************************************************************)
(* State.                                                                  *)
(*   analysisCache : the module-level Map, url -> <<>> (no entry) or       *)
(*                   <<report>>                                            *)
(*   pc, arg, ret  : per caller of analyzePage, where the call stands      *)
(*                   ("idle", "fetch": awaiting fetch, "json": awaiting    *)
(*                   response.json(), "catch": a rejection was delivered   *)
(*                   and the catch block runs next, "done": resolved), its *)
(*                   url argument, and <<>> or <<the report it resolved    *)
(*                   with>>                                                *)
(*   html, pageUrl, analysis : the arguments of a direct parseHTML call    *)
(*                   and <<>> or <<its result>>                            *)
(***************************************************************************)
VARIABLES analysisCache, pc, arg, ret, html, pageUrl, analysis

vars == <<analysisCache, pc, arg, ret, html, pageUrl, analysis>>
cacheVars == <<analysisCache, pc, arg, ret>>
parseVars == <<html, pageUrl, analysis>>

InitCache ==
  /\ analysisCache = [u \in Urls |-> <<>>]
  /\ pc = [c \in Callers |-> "idle"]
  /\ arg = [c \in Callers |-> Url1]
  /\ ret = [c \in Callers |-> <<>>]

Init ==
  /\ InitCache
  /\ html = BaseDoc
  /\ pageUrl = Url1
  /\ analysis = <<>>

(***************************************************************************)
(* analyzePage(url), one action per stretch between two awaits.            *)
(***************************************************************************)
\* lines 92-94: the cache has the url; the call resolves with the entry
CallHit(c, u) ==
  /\ pc[c] \in {"idle", "done"}
  /\ analysisCache[u] # <<>>
  /\ pc' = [pc EXCEPT ![c] = "done"]
  /\ arg' = [arg EXCEPT ![c] = u]
  /\ ret' = [ret EXCEPT ![c] = analysisCache[u]]
  /\ UNCHANGED <<analysisCache, parseVars>>

\* lines 92-103: no entry; the timer is armed and fetch is awaited
CallMiss(c, u) ==
  /\ pc[c] \in {"idle", "done"}
  /\ analysisCache[u] = <<>>
  /\ pc' = [pc EXCEPT ![c] = "fetch"]
  /\ arg' = [arg EXCEPT ![c] = u]
  /\ ret' = [ret EXCEPT ![c] = <<>>]
  /\ UNCHANGED <<analysisCache, parseVars>>

\* lines 101-106: fetch resolved; the timer is cleared and response.json() awaited
FetchResolve(c) ==
  /\ pc[c] = "fetch"
  /\ pc' = [pc EXCEPT ![c] = "json"]
  /\ UNCHANGED <<analysisCache, arg, ret, parseVars>>

\* line 101: fetch rejects with a transport failure
FetchReject(c) ==
  /\ pc[c] = "fetch"
  /\ pc' = [pc EXCEPT ![c] = "catch"]
  /\ UNCHANGED <<analysisCache, arg, ret, parseVars>>

\* line 99: the 3 second timer fires before fetch resolved; abort rejects the fetch
TimeoutAbort(c) ==
  /\ pc[c] = "fetch"
  /\ pc' = [pc EXCEPT ![c] = "catch"]
  /\ UNCHANGED <<analysisCache, arg, ret, parseVars>>

\* line 106: the body is not JSON; response.json() rejects
JsonReject(c) ==
  /\ pc[c] = "json"
  /\ pc' = [pc EXCEPT ![c] = "catch"]
  /\ UNCHANGED <<analysisCache, arg, ret, parseVars>>

\* lines 106-114: the body is parsed, analysed, stored and returned
JsonResolve(c) ==
  /\ pc[c] = "json"
  /\ \E rnd \in UniformStreams(Web(arg[c])) :
       LET a == parseHTML(Web(arg[c]), arg[c], rnd) IN
         /\ analysisCache' = [analysisCache EXCEPT ![arg[c]] = <<a>>]
         /\ ret' = [ret EXCEPT ![c] = <<a>>]
  /\ pc' = [pc EXCEPT ![c] = "done"]
  /\ UNCHANGED <<arg, parseVars>>

\* lines 115-120: the catch block stores and returns the sample analysis
Catch(c) ==
  /\ pc[c] = "catch"
  /\ LET a == getComprehensiveSampleAnalysis(arg[c]) IN
       /\ analysisCache' = [analysisCache EXCEPT ![arg[c]] = <<a>>]
       /\ ret' = [ret EXCEPT ![c] = <<a>>]
  /\ pc' = [pc EXCEPT ![c] = "done"]
  /\ UNCHANGED <<arg, parseVars>>

Next ==
  \E c \in Callers :
    \/ \E u \in Urls : CallHit(c, u)
    \/ \E u \in Urls : CallMiss(c, u)
    \/ FetchResolve(c)
    \/ FetchReject(c)
    \/ TimeoutAbort(c)
    \/ JsonReject(c)
    \/ JsonResolve(c)
    \/ Catch(c)

Spec == Init /\ [][Next]_vars

(***************************************************************************)
(* parseHTML called directly on an input drawn from Docs.                  *)
(***************************************************************************)
InitParse ==
  /\ InitCache
  /\ html \in Docs
  /\ pageUrl \in (IF html \in LinkDocs \cup BodyDocs THEN Urls ELSE {Url1})
  /\ analysis = <<>>

Parse ==
  /\ analysis = <<>>
  /\ \E rnd \in RandomStreams(html) : analysis' = <<parseHTML(html, pageUrl, rnd)>>
  /\ UNCHANGED <<html, pageUrl, cacheVars>>

NextParse == Parse

SpecParse == InitParse /\ [][NextParse]_vars

\* parseHTML called again on the same input
InitTwice ==
  /\ InitCache
  /\ html \in ImageDocs \cup BodyDocs
  /\ pageUrl = Url1
  /\ analysis = <<>>

ParseAgain ==
  /\ analysis # <<>>
  /\ \E rnd \in RandomStreams(html) : analysis' = <<parseHTML(html, pageUrl, rnd)>>
  /\ UNCHANGED <<html, pageUrl, cacheVars>>

NextTwice == Parse \/ ParseAgain

SpecTwice == InitTwice /\ [][NextTwice]_vars

(***************************************************************************)
(* Properties.                                                             *)
(***************************************************************************)
InFlight(u) == {c \in Callers : pc[c] \in {"fetch", "json", "catch"} /\ arg[c] = u}

\* C1: for every URL at most one analyzePage call is between its cache miss
\* and its return at any time, whatever the interleaving of the callers.
C1_AtMostOneInFlight ==
  \A u \in Urls : Cardinality(InFlight(u)) <= 1

\* C2: a call whose retrieval failed (its rejection was delivered: timeout
\* abort, transport failure or unparsable body) ends by rejecting to its
\* caller and leaves the cache as it was; it never resolves with a report and
\* never stores one.
C2_FailureReachesCaller ==
  [][\A c \in Callers :
       (pc[c] = "catch" /\ pc'[c] # "catch")
         => (pc'[c] = "rejected" /\ ret'[c] = <<>> /\ analysisCache' = analysisCache)]_vars

\* C3: a call analyzePage(u) that starts after some call for u has returned a
\* report R returns that same R, for every report R a finished call for u
\* holds, whatever other calls (also ones in flight when R was returned) did
\* in between.
C3_LaterCallsSameReport ==
  [][\A c \in Callers :
       (pc[c] \in {"idle", "done"}
        /\ (pc'[c] # pc[c] \/ arg'[c] # arg[c] \/ ret'[c] # ret[c]))
         => \A d \in Callers :
              (pc[d] = "done" /\ arg[d] = arg'[c])
                => (pc'[c] = "done" /\ ret'[c] = ret[d])]_vars

\* C4: a second run of parseHTML on the same HTML and URL yields the same
\* report (page facts, technical issues, detailed scores, score and
\* recommendations) as the first.
C4_ParseIdempotent ==
  [][(analysis # <<>> /\ analysis' # <<>>) => analysis' = analysis]_vars

ScoreNames == {"technical", "content", "performance", "accessibility", "social"}

ScoreSum(r) ==
  r.scores.technical + r.scores.content + r.scores.performance
  + r.scores.accessibility + r.scores.social

Abs(x) == IF x < 0 THEN -x ELSE x

\* C5: in every report of parseHTML each of the five sub-scores is an integer
\* in 0..100 and the overall score is the integer nearest to their mean
\* (|score - sum/5| <= 1/2).
C5_ScoresInRangeAndMean ==
  analysis # <<>> =>
    LET r == analysis[1] IN
      /\ \A k \in ScoreNames : r.scores[k] \in 0..100
      /\ r.score \in 0..100
      /\ 2 * Abs(5 * r.score - ScoreSum(r)) <= 5

\* a report whose mean is rounded up, with deductions on every ladder
C5_Witness ==
  /\ analysis # <<>>
  /\ ScoreSum(analysis[1]) % 5 >= 3
  /\ analysis[1].score = ScoreSum(analysis[1]) \div 5 + 1
  /\ \A k \in ScoreNames \ {"performance"} : analysis[1].scores[k] < 100

\* C6: for any images, withAlt + withoutAlt = total and the number of entries
\* of missingAlt equals withoutAlt, the alt attribute being absent, empty or
\* non-empty.
C6_ImageCounts ==
  analysis # <<>> =>
    LET i == analysis[1].images IN
      /\ i.withAlt + i.withoutAlt = i.total
      /\ i.total = Len(html.images)
      /\ Len(i.missingAlt) = i.withoutAlt

\* s contains tok as a whole space-separated token
HasToken(s, tok) ==
  \E i \in 1..Len(s) : \E j \in i..Len(s) :
    /\ SubSeq(s, i, j) = tok
    /\ (i = 1 \/ s[i - 1] = " ")
    /\ (j = Len(s) \/ s[j + 1] = " ")

RelOf(a) == IF a.rel = <<>> THEN <<>> ELSE a.rel[1]

\* C7: nofollow + dofollow equals the number of anchors that carry an href;
\* such an anchor is counted nofollow exactly when its rel attribute contains
\* the token nofollow, and dofollow otherwise.
C7_FollowBuckets ==
  analysis # <<>> =>
    LET l == analysis[1].links
        withHref == {i \in DOMAIN html.anchors : html.anchors[i].href # <<>>}
        tokened == {i \in withHref : HasToken(RelOf(html.anchors[i]), S_nofollow)}
    IN /\ l.nofollow + l.dofollow = Cardinality(withHref)
       /\ l.nofollow = Cardinality(tokened)
       /\ l.dofollow = Cardinality(withHref \ tokened)

B(b) == IF b THEN 1 ELSE 0

H1Count == Cardinality({i \in DOMAIN html.headings : html.headings[i] = 1})

\* the document has a title of 1..60 characters, a description of 1..160
\* characters and a canonical URL
NoOtherTechnicalIssue ==
  /\ html.title \in 1..60
  /\ html.metaDescription \in 1..160
  /\ html.canonical # <<>> /\ html.canonical[1] # <<>>

\* C8: duplicateH1 is true exactly when the document has more than one H1, and
\* the technical sub-score is max(0, 100 - 25*missingTitle
\* - 20*missingMetaDescription - 15*duplicateH1 - 10*missingCanonical
\* - 10*titleTooLong - 10*metaDescriptionTooLong); a document whose only issue
\* is two H1 elements scores 85.
C8_TechnicalScore ==
  analysis # <<>> =>
    LET t == analysis[1].technicalIssues
        ded == 25 * B(t.missingTitle) + 20 * B(t.missingMetaDescription)
               + 15 * B(t.duplicateH1) + 10 * B(t.missingCanonical)
               + 10 * B(t.titleTooLong) + 10 * B(t.metaDescriptionTooLong)
    IN /\ t.duplicateH1 <=> (H1Count > 1)
       /\ analysis[1].scores.technical = (IF ded > 100 THEN 0 ELSE 100 - ded)
       /\ (H1Count = 2 /\ NoOtherTechnicalIssue) => analysis[1].scores.technical = 85

\* a parsed document whose only technical issue is its two H1 elements
C8_Witness ==
  /\ analysis # <<>>
  /\ H1Count = 2
  /\ NoOtherTechnicalIssue
  /\ analysis[1].technicalIssues.duplicateH1
  /\ analysis[1].scores.technical = 85

\* the fixed rule list: technical, content, images, links, then the
\* performance, social and accessibility thresholds
RuleTexts ==
  <<"CRITICO: Agregar un titulo unico y descriptivo",
    "CRITICO: Agregar meta descripcion de 150-160 caracteres",
    "IMPORTANTE: Usar solo un H1 por pagina",
    "IMPORTANTE: Agregar URL canonica",
    "Acortar titulo a menos de 60 caracteres",
    "Acortar meta descripcion",
    "Aumentar contenido a minimo 300 palabras",
    "Mejorar legibilidad del contenido",
    "Revisar contenido duplicado",
    "Agregar texto alt a ${n} imagenes",
    "Optimizar tamano de imagenes grandes",
    "Agregar mas enlaces internos",
    "Balancear enlaces internos vs externos",
    "Mejorar velocidad de carga",
    "Implementar Open Graph y Twitter Cards",
    "Mejorar accesibilidad web">>

\* the condition of the i-th rule, on the facts of report r
RuleHolds(i, r) ==
  CASE i = 1 -> r.technicalIssues.missingTitle
    [] i = 2 -> r.technicalIssues.missingMetaDescription
    [] i = 3 -> r.technicalIssues.duplicateH1
    [] i = 4 -> r.technicalIssues.missingCanonical
    [] i = 5 -> r.technicalIssues.titleTooLong
    [] i = 6 -> r.technicalIssues.metaDescriptionTooLong
    [] i = 7 -> r.content.wordCount < 300
    [] i = 8 -> r.content.readabilityScore < 60
    [] i = 9 -> r.content.duplicateContent
    [] i = 10 -> r.images.withoutAlt > 0
    [] i = 11 -> Len(r.images.oversized) > 0
    [] i = 12 -> r.links.internal < 3
    [] i = 13 -> r.links.external > r.links.internal * 2
    [] i = 14 -> r.scores.performance < 70
    [] i = 15 -> r.scores.social < 70
    [] i = 16 -> r.scores.accessibility < 70

RuleIndex(line) == CHOOSE i \in DOMAIN RuleTexts : RuleTexts[i] = line.text

\* C9: the recommendations are exactly the lines of the fixed rule list whose
\* conditions hold, in the order of that list (each line of the list is
\* present iff its condition holds, and rule indices increase along the
\* recommendations); with a title over 60 characters and no meta description
\* the missing-description line precedes the title-length line.
C9_RecommendationsOrdered ==
  analysis # <<>> =>
    LET r == analysis[1]
        recs == r.recommendations
    IN /\ \A k \in DOMAIN recs : \E i \in DOMAIN RuleTexts : RuleTexts[i] = recs[k].text
       /\ \A i \in DOMAIN RuleTexts :
            (\E k \in DOMAIN recs : recs[k].text = RuleTexts[i]) <=> RuleHolds(i, r)
       /\ \A k \in DOMAIN recs :
            k < Len(recs) => RuleIndex(recs[k]) < RuleIndex(recs[k + 1])
       /\ \A k \in DOMAIN recs :
            recs[k].n = (IF RuleIndex(recs[k]) = 10 THEN r.images.withoutAlt ELSE 0)
       /\ (html.title > 60 /\ html.metaDescription = 0) =>
            \E k \in DOMAIN recs : \E m \in DOMAIN recs :
              /\ k < m
              /\ recs[k].text = RuleTexts[2]
              /\ recs[m].text = RuleTexts[5]

\* a report of a document with a title over 60 characters and no meta
\* description, whose recommendations also hold lines of later groups
C9_Witness ==
  /\ analysis # <<>>
  /\ html.title > 60
  /\ html.metaDescription = 0
  /\ Len(analysis[1].recommendations) >= 4
  /\ analysis[1].recommendations[1].text = RuleTexts[2]
  /\ \E k \in DOMAIN analysis[1].recommendations :
       analysis[1].recommendations[k].text = RuleTexts[12]

\* the @type strings, in order, of the blocks of scripts that Keep accepts
TypesWhere(scripts, Keep(_)) ==
  LET kept == SelectSeq(scripts, Keep) IN
    [k \in 1..Len(kept) |-> JSONparse(kept[k]).type[1]]

ErrorsFor(n) == [k \in 1..n |-> InvalidJsonLd]

\* C10 as stated: errors holds one fixed-message entry per block that fails to
\* parse as JSON and none for a block that parses, types holds the @type of
\* each parsed block that has one, and hasSchema is true iff a block exists.
C10_ErrorsPerUnparsableBlock ==
  analysis # <<>> =>
    LET sd == analysis[1].structuredData
        failing == {i \in DOMAIN html.scripts : JSONparse(html.scripts[i]).throws}
        HasType(t) == ~JSONparse(t).throws /\ JSONparse(t).type # <<>>
    IN /\ sd.errors = ErrorsFor(Cardinality(failing))
       /\ sd.types = TypesWhere(html.scripts, HasType)
       /\ sd.hasSchema <=> (Len(html.scripts) > 0)

\* C10, amended: every block is processed and no exception escapes; errors
\* holds one fixed-message entry per block that fails to parse as JSON or
\* parses to the JSON value null, and none for any other block; types holds, in
\* document order, the @type of each parsed block whose top-level @type is a
\* non-empty string; hasSchema is true iff a block exists.
C10_ErrorsPerRejectedBlock ==
  analysis # <<>> =>
    LET sd == analysis[1].structuredData
        rejected == {i \in DOMAIN html.scripts :
                       \/ JSONparse(html.scripts[i]).throws
                       \/ JSONparse(html.scripts[i]).kind = "null"}
        HasTruthyType(t) ==
          /\ ~JSONparse(t).throws
          /\ JSONparse(t).type # <<>>
          /\ JSONparse(t).type[1] # ""
    IN /\ sd.errors = ErrorsFor(Cardinality(rejected))
       /\ sd.types = TypesWhere(html.scripts, HasTruthyType)
       /\ sd.hasSchema <=> (Len(html.scripts) > 0)

\* a truncated block followed by a typed block: one error, and the loop went on
C10_Witness ==
  /\ analysis # <<>>
  /\ Len(html.scripts) = 2
  /\ JSONparse(html.scripts[1]).throws
  /\ analysis[1].structuredData.errors = <<InvalidJsonLd>>
  /\ analysis[1].structuredData.types = <<"Article">>
  /\ analysis[1].structuredData.hasSchema

\* the qualifying words of the body text: its lower-cased, punctuation-free
\* white-space separated tokens longer than 3 characters, in text order
Qualifying ==
  SelectSeq(SplitSpaces(StripPunctuation(toLowerCase(html.text)), <<>>, FALSE),
            LAMBDA w : Len(w) > 3)

Occurrences(w) == Cardinality({i \in DOMAIN Qualifying : Qualifying[i] = w})
FirstIndex(w) == CHOOSE i \in DOMAIN Qualifying :
                   Qualifying[i] = w /\ \A j \in 1..(i - 1) : Qualifying[j] # w

\* w ranks before v: denser, or as dense and seen first
RanksBefore(w, v) ==
  \/ Occurrences(w) > Occurrences(v)
  \/ Occurrences(w) = Occurrences(v) /\ FirstIndex(w) < FirstIndex(v)

\* C11: suggestions holds the at most 15 highest-density qualifying words, in
\* non-increasing density order with ties in first-seen order; primary is its
\* first 3 entries and secondary its entries 4 through 10.
C11_SuggestionsRanked ==
  analysis # <<>> =>
    LET k == analysis[1].keywords
        sg == k.suggestions
        distinct == {Qualifying[i] : i \in DOMAIN Qualifying}
    IN /\ Len(sg) = Min(15, Cardinality(distinct))
       /\ \A i \in DOMAIN sg : sg[i] \in distinct
       /\ \A i, j \in DOMAIN sg : i < j => RanksBefore(sg[i], sg[j])
       /\ \A w \in distinct :
            (\A i \in DOMAIN sg : sg[i] # w) => \A i \in DOMAIN sg : RanksBefore(sg[i], w)
       /\ k.primary = SubSeq(sg, 1, Min(3, Len(sg)))
       /\ k.secondary = SubSeq(sg, 4, Min(10, Len(sg)))

\* C11 on the texts without a token made of digits alone
C11_RankedWithoutNumbers ==
  (\A i \in DOMAIN Qualifying : ~IsArrayIndex(Qualifying[i])) => C11_SuggestionsRanked

\* some heading is more than one level below the heading just before it
SkipsLevel(levels) == \E i \in 2..Len(levels) : levels[i] > levels[i - 1] + 1

\* C12: headingStructure is false exactly when some heading's level exceeds
\* the level of the heading immediately before it by more than one; the first
\* heading, which has no predecessor, does not by itself make it false.
C12_HeadingStructure ==
  analysis # <<>> =>
    (analysis[1].accessibility.headingStructure = FALSE <=> SkipsLevel(html.headings))

\* C12 on the documents that have no heading or start with an h1
C12_FromTopLevel ==
  (html.headings # <<>> => html.headings[1] = 1) => C12_HeadingStructure

\* the number of letters of the scheme that starts href, 0 when href starts
\* with no scheme (letters followed by a colon)
RECURSIVE SchemeLen(_, _)
SchemeLen(href, n) ==
  IF n >= Len(href) THEN 0
  ELSE IF href[n + 1] = ":" THEN n
  ELSE IF \E k \in DOMAIN LowerCase : LowerCase[k] = href[n + 1] THEN SchemeLen(href, n + 1)
  ELSE 0

\* href is scheme://host...
HasHost(href) ==
  LET n == SchemeLen(href, 0) IN
    /\ n > 0
    /\ Len(href) >= n + 3
    /\ SubSeq(href, n + 1, n + 3) = <<":", "/", "/">>

\* the characters of s up to the first / ? or #
RECURSIVE UpToDelimiter(_)
UpToDelimiter(s) ==
  IF s = <<>> \/ Head(s) \in {"/", "?", "#"} THEN <<>>
  ELSE <<Head(s)>> \o UpToDelimiter(Tail(s))

HostOf(href) == UpToDelimiter(SubSeq(href, SchemeLen(href, 0) + 4, Len(href)))

\* the anchors of the document that carry an href, and their hrefs
WithHref == {i \in DOMAIN html.anchors : html.anchors[i].href # <<>>}
HrefOf(i) == html.anchors[i].href[1]

\* C13: an anchor with an href is counted in at most one of internal and
\* external; it is external exactly when its href is an absolute
\* scheme-qualified URL whose host differs from the page's host, and internal
\* exactly when its href is root-relative or its host is the page's host.
C13_LinkBuckets ==
  analysis # <<>> =>
    LET l == analysis[1].links
        host == Hostname(pageUrl)
        ext == {i \in WithHref : HasHost(HrefOf(i)) /\ HostOf(HrefOf(i)) # host}
        int == {i \in WithHref : \/ StartsWith(HrefOf(i), S_slash)
                                  \/ (HasHost(HrefOf(i)) /\ HostOf(HrefOf(i)) = host)}
    IN /\ l.internal + l.external <= Cardinality(WithHref)
       /\ l.external = Cardinality(ext)
       /\ l.internal = Cardinality(int)

\* C13 on the documents of LinkDocs, where no href names the page's host
\* outside its host part and no relative href starts with 'http'
C13_OnLinkDocs == html \in LinkDocs => C13_LinkBuckets
====
